---- MODULE Spec2Model ----
(***************************************************************************)
(* Model of update_abuseipdb_asns.py: the static ASN catalog, the          *)
(* AbuseIPDB fetcher, the rules.yaml updater, the Cloudflare ruleset       *)
(* cleanup and the __main__ sequence that runs them.                       *)
(*                                                                         *)
(* Python strings are TLA+ strings (Len, SubSeq and \o act on them).       *)
(* os.getenv's result is <<>> for None and <<s>> for the string s.         *)
(* yaml.safe_load / yaml.dump are the external library: the file on disk   *)
(* is held as the document it parses to, or as one of the contents that    *)
(* do not parse to a document.                                             *)
(***************************************************************************)
EXTENDS Integers, Sequences, FiniteSets, TLC

VARIABLES
    ABUSEIPDB_API_KEY,      \* os.getenv("ABUSEIPDB_API_KEY")
    CLOUDFLARE_API_TOKEN,   \* os.getenv("TF_VAR_cloudflare_api_token")
    pc,                     \* position in the script
    zoneIdx,                \* position of the for loop over ZONE_IDS.items()
    custom_rulesets,        \* the filtered list the inner loop walks
    rsIdx,                  \* position of the inner loop
    calls,                  \* every HTTP request and file access so far, in order
    asns,                   \* what fetch_abuseipdb_asns returned / update's argument
    fetchLog,               \* which branch of the fetcher ran and what it logged
    file,                   \* rules.yaml on disk
    origFile,               \* rules.yaml as it was when the process started
    data,                   \* the in-memory document of update_rules_yaml
    crashSite,              \* where an uncaught exception ended the process
    nCalls                  \* number of direct update_rules_yaml calls (library use)

vars == <<ABUSEIPDB_API_KEY, CLOUDFLARE_API_TOKEN, pc, zoneIdx, custom_rulesets,
          rsIdx, calls, asns, fetchLog, file, origFile, data, crashSite, nCalls>>

----------------------------------------------------------------------------
(* Bounds of the model *)

MaxRulesets == 2    \* rulesets in one zone's list response
MaxFeed == 2        \* entries in the blacklist response
MaxRules == 2       \* rules in an input document
MaxUpdates == 2     \* direct update_rules_yaml calls in succession

----------------------------------------------------------------------------
(* Python built-ins the script uses *)

\* s[:n]
Take(s, n) == SubSeq(s, 1, IF Len(s) < n THEN Len(s) ELSE n)

\* sub in s, for strings
Contains(sub, s) ==
    \E i \in 1..(Len(s) - Len(sub) + 1) : SubSeq(s, i, i + Len(sub) - 1) = sub

UpperAlphabet == "ABCDEFGHIJKLMNOPQRSTUVWXYZ"
LowerAlphabet == "abcdefghijklmnopqrstuvwxyz"

LowerOf ==
    [c \in {SubSeq(UpperAlphabet, i, i) : i \in 1..Len(UpperAlphabet)} |->
        LET i == CHOOSE j \in 1..Len(UpperAlphabet) : SubSeq(UpperAlphabet, j, j) = c
        IN  SubSeq(LowerAlphabet, i, i)]

LowerChar(c) == IF c \in DOMAIN LowerOf THEN LowerOf[c] ELSE c

\* s.lower()
RECURSIVE Lower(_)
Lower(s) ==
    IF Len(s) = 0 THEN ""
    ELSE LowerChar(SubSeq(s, 1, 1)) \o Lower(SubSeq(s, 2, Len(s)))

Digits == "0123456789"

\* str(n) for an int
RECURSIVE Str(_)
Str(n) ==
    IF n < 0 THEN "-" \o Str(-n)
    ELSE IF n < 10 THEN SubSeq(Digits, n + 1, n + 1)
    ELSE Str(n \div 10) \o SubSeq(Digits, (n % 10) + 1, (n % 10) + 1)

\* sep.join(parts)
RECURSIVE Join(_, _)
Join(sep, parts) ==
    IF Len(parts) = 0 THEN ""
    ELSE IF Len(parts) = 1 THEN parts[1]
    ELSE parts[1] \o sep \o Join(sep, Tail(parts))

\* bool(v) of an os.getenv result: None and "" are false
Truthy(v) == v # <<>> /\ v[1] # ""

\* sequences over S of length at most n
SeqsUpTo(S, n) == UNION {[1..k -> S] : k \in 0..n}

----------------------------------------------------------------------------
(* Module-level configuration *)

OUTPUT_FILE == "rules.yaml"
MAX_ASNS == 50

\* ZONE_IDS.items(), in insertion order
ZONE_IDS ==
    << <<"homieyeng.top", "1791cd65881eb3caf7d1a3cb315342a5">>,
       <<"homieyang.dpdns.org", "42e0fad5233017cf842727c41ce3ef89">> >>

get_known_bad_asns ==
    << 197695, 49505, 201776, 202425, 49392, 44812, 202422,
       49981, 60068, 44901, 51167, 200000,
       208091, 202448, 63949, 16276, 24940,
       45090, 37963,
       20473, 14061,
       9009, 35913,
       31034, 8100, 46844,
       40676, 53667,
       209605, 212238,
       29802,
       48693 >>

----------------------------------------------------------------------------
(* The log of requests and file accesses *)

Call(op, zone, id, ok, result) ==
    [op |-> op, zone |-> zone, id |-> id, ok |-> ok, result |-> result]

INTEL_URL == "https://api.abuseipdb.com/api/v2/blacklist?confidenceMinimum=90&limit=100"

----------------------------------------------------------------------------
(* fetch_abuseipdb_asns *)

NoBody == [kind |-> "none", data |-> <<>>]

FeedEntries ==
    {[countryCode |-> "RU"], [countryCode |-> "US"], [ipAddress |-> "198.51.100.7"]}

\* six countries once each, the high-risk one last, and the same with it twice
LongFeeds ==
    LET five == << [countryCode |-> "US"], [countryCode |-> "DE"],
                   [countryCode |-> "FR"], [countryCode |-> "GB"],
                   [countryCode |-> "NL"] >>
    IN  { five \o << [countryCode |-> "CN"] >>,
          five \o << [countryCode |-> "CN"], [countryCode |-> "CN"] >> }

Feeds == SeqsUpTo(FeedEntries, MaxFeed) \cup LongFeeds

\* response.json(): not JSON, a dict without "data", "data": null, "data": [...]
IntelBodies ==
    {[kind |-> "not_json", data |-> <<>>],
     [kind |-> "no_data_key", data |-> <<>>],
     [kind |-> "data_null", data |-> <<>>]}
    \cup {[kind |-> "data", data |-> f] : f \in Feeds}

\* what requests.get can do: raise, or answer with a status and a body
IntelResponses ==
    {[exc |-> e, status |-> 0, body |-> NoBody] : e \in {"RequestException", "Exception"}}
    \cup {[exc |-> "none", status |-> 200, body |-> b] : b \in IntelBodies}
    \cup {[exc |-> "none", status |-> st, body |-> NoBody] : st \in {429, 401, 500}}

\* entry.get("countryCode", "Unknown")
EntryCountry(entry) ==
    IF "countryCode" \in DOMAIN entry THEN entry.countryCode ELSE "Unknown"

\* country_stats[country] = country_stats.get(country, 0) + 1, on an ordered dict
CountInto(stats, country) ==
    IF \E i \in 1..Len(stats) : stats[i][1] = country
    THEN [i \in 1..Len(stats) |->
            IF stats[i][1] = country THEN <<country, stats[i][2] + 1>> ELSE stats[i]]
    ELSE Append(stats, <<country, 1>>)

RECURSIVE CountryStatsFrom(_, _)
CountryStatsFrom(stats, feed) ==
    IF Len(feed) = 0 THEN stats
    ELSE CountryStatsFrom(CountInto(stats, EntryCountry(Head(feed))), Tail(feed))

\* the items() of country_stats after the loop
country_stats(feed) == CountryStatsFrom(<<>>, feed)

\* stable insertion of item after every element whose count is >= its own
InsertDesc(sorted, item) ==
    LET k == Cardinality({i \in 1..Len(sorted) : sorted[i][2] >= item[2]})
    IN  SubSeq(sorted, 1, k) \o <<item>> \o SubSeq(sorted, k + 1, Len(sorted))

RECURSIVE SortDescFrom(_, _)
SortDescFrom(sorted, items) ==
    IF Len(items) = 0 THEN sorted
    ELSE SortDescFrom(InsertDesc(sorted, Head(items)), Tail(items))

\* sorted(country_stats.items(), key=lambda x: x[1], reverse=True)[:10]
sorted_countries(feed) == Take(SortDescFrom(<<>>, country_stats(feed)), 10)

high_risk_countries == <<"RU", "CN", "KP", "IR">>

\* any(country in [c[0] for c in sorted_countries[:5]] for country in high_risk_countries)
HighRiskDetected(sorted) ==
    LET top == Take(sorted, 5)
    IN  \E h \in 1..Len(high_risk_countries) :
            \E i \in 1..Len(top) : top[i][1] = high_risk_countries[h]

\* a mutant: the high-risk branch moves the catalog's later entries to the front
SelectedAsnsPrioritised(static_asns, sorted) ==
    IF HighRiskDetected(sorted)
    THEN Take(SubSeq(static_asns, 18, Len(static_asns)) \o SubSeq(static_asns, 1, 17),
              MAX_ASNS)
    ELSE Take(static_asns, MAX_ASNS)

\* selected_asns = static_asns[:MAX_ASNS]
SelectedAsns(static_asns, sorted) == Take(static_asns, MAX_ASNS)

\* the branch of the function that returns; a body that is not JSON makes
\* response.json() raise inside the try (requests' JSONDecodeError is a
\* RequestException), and "data": null makes len() raise a TypeError
FetchPath(key, resp) ==
    IF ~Truthy(key) THEN "no_key"
    ELSE IF resp.exc = "RequestException" THEN "network_error"
    ELSE IF resp.exc # "none" THEN "unexpected_error"
    ELSE IF resp.status = 200 THEN
        CASE resp.body.kind = "not_json" -> "network_error"
          [] resp.body.kind = "data_null" -> "unexpected_error"
          [] resp.body.kind = "no_data_key" -> "empty_data"
          [] resp.body.kind = "data" ->
                IF Len(resp.body.data) > 0 THEN "live_data" ELSE "empty_data"
    ELSE IF resp.status = 429 THEN "rate_limited"
    ELSE IF resp.status = 401 THEN "auth_failed"
    ELSE "api_error"

\* the value the function returns
fetch_abuseipdb_asns(key, resp) ==
    IF FetchPath(key, resp) = "live_data"
    THEN SelectedAsns(get_known_bad_asns, sorted_countries(resp.body.data))
    ELSE Take(get_known_bad_asns, MAX_ASNS)

\* whether the "High-risk countries detected" line is printed
FetchPrintsHighRisk(key, resp) ==
    /\ FetchPath(key, resp) = "live_data"
    /\ HighRiskDetected(sorted_countries(resp.body.data))

\* a mutant: a rate-limited request is sent again
FetchRequestsRetrying(key, resp) ==
    IF ~Truthy(key) THEN <<>>
    ELSE IF resp.exc = "none" /\ resp.status = 429
    THEN << Call("GET", "", INTEL_URL, FALSE, <<>>), Call("GET", "", INTEL_URL, FALSE, <<>>) >>
    ELSE << Call("GET", "", INTEL_URL, resp.exc = "none" /\ resp.status = 200, <<>>) >>

\* the requests the function issues
FetchRequests(key, resp) ==
    IF ~Truthy(key) THEN <<>>
    ELSE << Call("GET", "", INTEL_URL, resp.exc = "none" /\ resp.status = 200, <<>>) >>

----------------------------------------------------------------------------
(* update_rules_yaml *)

RULE_NAME == "Block Known Bad ASNs (AbuseIPDB)"

\* a mutant: the numbers are joined without the separator
ExpressionUnseparated(a) ==
    "(ip.geoip.asnum in {" \o Join("", [i \in 1..Len(a) |-> Str(a[i])]) \o "})"

\* the f-string of the rule's expression
Expression(a) ==
    "(ip.geoip.asnum in {" \o Join(" ", [i \in 1..Len(a) |-> Str(a[i])]) \o "})"

\* a mutant: only the rule this script writes is removed
KeepRuleExactName(rule) == rule.name # RULE_NAME

\* "ASN" not in rule["name"]
KeepRule(rule) == ~Contains("ASN", rule.name)

\* the contents rules.yaml can have
MissingFile == [kind |-> "missing", doc |-> [none |-> TRUE]]
GarbageFile == [kind |-> "garbage", doc |-> [none |-> TRUE]]
EmptyFile   == [kind |-> "empty", doc |-> [none |-> TRUE]]
\* the beginning of a dump that safe_load rejects, or that parses to something
\* the load lines raise on (no "rules" list, a last rule cut before its name)
PartialFile == [kind |-> "partial", doc |-> [none |-> TRUE]]
YamlFile(doc) == [kind |-> "yaml", doc |-> doc]

\* open(OUTPUT_FILE, 'r'), yaml.safe_load(f), data["rules"] and rule["name"] all succeed
Loadable(f) ==
    /\ f.kind = "yaml"
    /\ "rules" \in DOMAIN f.doc
    /\ \A i \in 1..Len(f.doc.rules) : "name" \in DOMAIN f.doc.rules[i]

\* data["rules"] after the filter and the conditional append
UpdatedRules(rules, a) ==
    IF Len(a) > 0
    THEN SelectSeq(rules, KeepRule) \o
         << [name |-> RULE_NAME, action |-> "block", expression |-> Expression(a)] >>
    ELSE SelectSeq(rules, KeepRule)

\* data when the second open is reached
UpdatedDocument(doc, a) == [doc EXCEPT !.rules = UpdatedRules(doc.rules, a)]

\* str.rstrip(" "): a plain scalar is loaded without its trailing spaces
RECURSIVE RStrip(_)
RStrip(s) ==
    IF Len(s) > 0 /\ SubSeq(s, Len(s), Len(s)) = " "
    THEN RStrip(SubSeq(s, 1, Len(s) - 1))
    ELSE s

\* the names safe_load reads when the write ends inside a name: every beginning
\* of the name that is shorter than it, without its trailing spaces
NameCuts(name) == {RStrip(SubSeq(name, 1, n)) : n \in 1..(Len(name) - 1)}

\* a rule whose name, the last key yaml.dump writes, was cut to the name c
CutRule(rule, c) == [rule EXCEPT !.name = c]

\* what a yaml.dump(data, f) that ends part way can leave in the truncated file:
\* nothing, a beginning that does not load, the whole document (only the final
\* newline is missing), or a beginning that loads: the first k rules, the last
\* of them whole or with its name cut.  (yaml.dump writes keys in sorted order;
\* the documents of the model that load have no key beside "rules".)
DumpCuts(doc) ==
    {EmptyFile, PartialFile, YamlFile(doc)}
    \cup {YamlFile([rules |-> SubSeq(doc.rules, 1, k)]) : k \in 1..Len(doc.rules)}
    \cup UNION {{YamlFile([rules |-> SubSeq(doc.rules, 1, k - 1)
                                       \o <<CutRule(doc.rules[k], c)>>]) :
                    c \in NameCuts(doc.rules[k].name)} : k \in 1..Len(doc.rules)}

\* what the file system does to the write: nothing (at = ""), the open raises
\* and nothing is truncated (at = "open"), or the dump ends part way and leaves
\* the content left (at = "dump")
IoOk == [at |-> "", left |-> EmptyFile]
IoOpenFails == [at |-> "open", left |-> EmptyFile]
IoDumpFails(left) == [at |-> "dump", left |-> left]

\* the io outcomes a call on file f with argument a can meet
WriteOutcomes(f, a) ==
    IF Loadable(f)
    THEN {IoOk, IoOpenFails}
         \cup {IoDumpFails(c) : c \in DumpCuts(UpdatedDocument(f.doc, a))}
    ELSE {IoOk}

\* the whole function, under the io outcome it meets
update_rules_yaml(f, a, io) ==
    IF ~Loadable(f) THEN [file |-> f, raised |-> "load"]
    ELSE IF io.at = "open" THEN [file |-> f, raised |-> "open"]
    ELSE IF io.at = "dump" THEN [file |-> io.left, raised |-> "dump"]
    ELSE [file |-> YamlFile(UpdatedDocument(f.doc, a)), raised |-> ""]

\* rules of the input documents
OldAsnRule ==
    [name |-> RULE_NAME, action |-> "block", expression |-> "(ip.geoip.asnum in {1 2})"]
BotRule ==
    [name |-> "Bad bots", action |-> "block", expression |-> "(cf.client.bot)"]
OtherAsnRule ==
    [name |-> "ASN 13335", action |-> "managed_challenge",
     expression |-> "(ip.geoip.asnum eq 13335)"]
LowercaseRule ==
    [name |-> "asn allow", action |-> "skip",
     expression |-> "(ip.src in $allowlist)"]
NamelessRule == [action |-> "log", expression |-> "true"]

InputRules == {OldAsnRule, BotRule, OtherAsnRule, LowercaseRule, NamelessRule}

\* every content the file can have before a direct call
InputFiles ==
    {MissingFile, GarbageFile, EmptyFile, YamlFile([version |-> 1])}
    \cup {YamlFile([rules |-> r]) : r \in SeqsUpTo(InputRules, MaxRules)}

\* the contents tried in a whole run of the script
RunFiles ==
    {MissingFile, YamlFile([version |-> 1]),
     YamlFile([rules |-> <<BotRule, OldAsnRule, LowercaseRule, OtherAsnRule>>])}

\* the asns arguments tried in direct calls: none, and two that are not in ascending order
AsnArguments == {<<>>, <<64512, 7>>}

----------------------------------------------------------------------------
(* get_zone_rulesets, delete_ruleset, cleanup_existing_rulesets *)

CUSTOM_PHASE == "http_request_firewall_custom"

Ruleset(id, name, phase, kind) == [id |-> id, name |-> name, phase |-> phase, kind |-> kind]

\* the rulesets a zone can hold, in the order the API lists them
RemoteRulesets ==
    << Ruleset("rs-a", "Terraform Managed WAF", CUSTOM_PHASE, "zone"),
       Ruleset("rs-b", "Custom Rule", CUSTOM_PHASE, "zone"),
       Ruleset("rs-c", "default waf", "http_request_firewall_managed", "zone"),
       Ruleset("rs-d", "managed rules", CUSTOM_PHASE, "managed"),
       Ruleset("rs-e", "My WAF", CUSTOM_PHASE, "zone") >>

\* the "result" arrays: any of the rulesets, at most MaxRulesets of them
RulesetLists ==
    LET idx == {s \in SeqsUpTo(1..Len(RemoteRulesets), MaxRulesets) :
                  \A i \in 1..(Len(s) - 1) : s[i] < s[i + 1]}
    IN  {[i \in 1..Len(s) |-> RemoteRulesets[s[i]]] : s \in idx}

\* what requests.get can do for the list: raise, answer non-200, answer 200 with
\* or without "result"
ListResponses ==
    {[exc |-> TRUE, status |-> 0, hasResult |-> FALSE, result |-> <<>>]}
    \cup {[exc |-> FALSE, status |-> st, hasResult |-> FALSE, result |-> <<>>] :
            st \in {200, 403}}
    \cup {[exc |-> FALSE, status |-> 200, hasResult |-> TRUE, result |-> l] :
            l \in RulesetLists}

\* what requests.delete can do: raise, or answer with a status
DeleteResponses ==
    {[exc |-> TRUE, status |-> 0]}
    \cup {[exc |-> FALSE, status |-> st] : st \in {200, 204, 404}}

\* the value get_zone_rulesets returns when requests.get answers
get_zone_rulesets(token, resp) ==
    IF ~Truthy(token) THEN <<>>
    ELSE IF resp.status # 200 THEN <<>>
    ELSE IF resp.hasResult THEN resp.result
    ELSE <<>>

\* the request get_zone_rulesets issues: none without a token
ListRequests(token, zone_id, resp) ==
    IF ~Truthy(token) THEN <<>>
    ELSE << Call("LIST", zone_id, "", ~resp.exc /\ resp.status = 200,
                 IF resp.exc THEN <<>> ELSE get_zone_rulesets(token, resp)) >>

\* the value delete_ruleset returns when requests.delete answers
delete_ruleset(resp) == resp.status \in {200, 204}

\* a mutant: only the phase is compared
IsCustomZonePhaseOnly(rs) == rs.phase = CUSTOM_PHASE

\* rs.get("phase") == "http_request_firewall_custom" and rs.get("kind") == "zone"
IsCustomZone(rs) == rs.phase = CUSTOM_PHASE /\ rs.kind = "zone"

custom_rulesets_of(rulesets) == SelectSeq(rulesets, IsCustomZone)

KEYWORDS == <<"terraform", "waf", "managed">>

\* any(keyword in ruleset['name'].lower() for keyword in [...])
IsManaged(name) ==
    \E k \in 1..Len(KEYWORDS) : Contains(KEYWORDS[k], Lower(name))

----------------------------------------------------------------------------
(* The script run as __main__ *)

EnvValues == {<<>>, <<"">>, <<"secret">>}

NoFetch == [path |-> "", highRisk |-> FALSE]
NoData == [none |-> TRUE]

Init ==
    /\ ABUSEIPDB_API_KEY \in EnvValues
    /\ CLOUDFLARE_API_TOKEN \in EnvValues
    /\ file \in RunFiles
    /\ origFile = file
    /\ pc = "cleanup"
    /\ zoneIdx = 0
    /\ custom_rulesets = <<>>
    /\ rsIdx = 0
    /\ calls = <<>>
    /\ asns = <<>>
    /\ fetchLog = NoFetch
    /\ data = NoData
    /\ crashSite = ""
    /\ nCalls = 0

\* a mutant: the rules file is updated before the fetch
MainAfterUpdateFirst(step) ==
    CASE step = "cleanup" -> "update"
      [] step = "update" -> "fetch"
      [] step = "fetch" -> "done"

\* the statement of __main__ that follows a step
MainAfter(step) ==
    CASE step = "cleanup" -> "fetch"
      [] step = "fetch" -> "update"
      [] step = "update" -> "done"

\* a mutant: a missing token is an error
MissingTokenRaises == "crashed"

\* what cleanup_existing_rulesets does without a token: it returns
MissingTokenOutcome == MainAfter("cleanup")

\* an exception nobody catches ends the process with a traceback
Crash(site) ==
    /\ pc' = "crashed"
    /\ crashSite' = site

\* the outer loop moves to the next zone, or cleanup_existing_rulesets returns
NextZone ==
    /\ custom_rulesets' = <<>>
    /\ rsIdx' = 0
    /\ IF zoneIdx < Len(ZONE_IDS)
       THEN zoneIdx' = zoneIdx + 1 /\ pc' = "zone"
       ELSE zoneIdx' = zoneIdx /\ pc' = MainAfter("cleanup")

\* cleanup_existing_rulesets up to the first loop iteration
CleanupStart ==
    /\ pc = "cleanup"
    /\ IF ~Truthy(CLOUDFLARE_API_TOKEN)
       THEN /\ pc' = MissingTokenOutcome
            /\ zoneIdx' = zoneIdx
            /\ crashSite' = IF MissingTokenOutcome = "crashed"
                            THEN "cleanup_existing_rulesets" ELSE crashSite
       ELSE /\ pc' = "zone"
            /\ zoneIdx' = 1
            /\ crashSite' = crashSite
    /\ UNCHANGED <<ABUSEIPDB_API_KEY, CLOUDFLARE_API_TOKEN, custom_rulesets, rsIdx,
                   calls, asns, fetchLog, file, origFile, data, nCalls>>

\* one iteration of the outer loop up to the inner loop: the list GET and the filter
ListZone ==
    /\ pc = "zone"
    /\ \E resp \in ListResponses :
        LET zone_id == ZONE_IDS[zoneIdx][2]
            rulesets == get_zone_rulesets(CLOUDFLARE_API_TOKEN, resp)
            custom == custom_rulesets_of(rulesets)
        IN  /\ calls' = calls \o ListRequests(CLOUDFLARE_API_TOKEN, zone_id, resp)
            /\ IF resp.exc /\ Truthy(CLOUDFLARE_API_TOKEN)
               THEN /\ Crash("get_zone_rulesets")
                    /\ UNCHANGED <<zoneIdx, custom_rulesets, rsIdx>>
               ELSE /\ crashSite' = crashSite
                    /\ IF Len(custom) = 0
                       THEN NextZone
                       ELSE /\ custom_rulesets' = custom
                            /\ rsIdx' = 1
                            /\ pc' = "ruleset"
                            /\ zoneIdx' = zoneIdx
    /\ UNCHANGED <<ABUSEIPDB_API_KEY, CLOUDFLARE_API_TOKEN, asns, fetchLog, file,
                   origFile, data, nCalls>>

\* the inner loop moves to the next ruleset, or the outer loop goes on
NextRuleset ==
    IF rsIdx < Len(custom_rulesets)
    THEN /\ rsIdx' = rsIdx + 1
         /\ UNCHANGED <<pc, zoneIdx, custom_rulesets>>
    ELSE NextZone

\* a mutant: a failed deletion ends the zone's loop
AfterDeleteStopOnFailure(deleted) ==
    IF deleted THEN NextRuleset ELSE NextZone

\* delete_ruleset's return value is discarded: the loop goes on either way
AfterDelete(deleted) == NextRuleset

\* one iteration of the inner loop on a ruleset the heuristic selects: the DELETE
DeleteManaged ==
    /\ pc = "ruleset"
    /\ IsManaged(custom_rulesets[rsIdx].name)
    /\ \E resp \in DeleteResponses :
        /\ calls' = Append(calls, Call("DELETE", ZONE_IDS[zoneIdx][2],
                                       custom_rulesets[rsIdx].id,
                                       ~resp.exc /\ delete_ruleset(resp), <<>>))
        /\ IF resp.exc
           THEN /\ Crash("delete_ruleset")
                /\ UNCHANGED <<zoneIdx, custom_rulesets, rsIdx>>
           ELSE /\ crashSite' = crashSite
                /\ AfterDelete(delete_ruleset(resp))
    /\ UNCHANGED <<ABUSEIPDB_API_KEY, CLOUDFLARE_API_TOKEN, asns, fetchLog, file,
                   origFile, data, nCalls>>

\* one iteration of the inner loop on a ruleset the heuristic skips
SkipUnmanaged ==
    /\ pc = "ruleset"
    /\ ~IsManaged(custom_rulesets[rsIdx].name)
    /\ NextRuleset
    /\ UNCHANGED <<ABUSEIPDB_API_KEY, CLOUDFLARE_API_TOKEN, calls, asns, fetchLog,
                   file, origFile, data, crashSite, nCalls>>

\* asns = fetch_abuseipdb_asns()
Fetch ==
    /\ pc = "fetch"
    /\ \E resp \in IntelResponses :
        /\ asns' = fetch_abuseipdb_asns(ABUSEIPDB_API_KEY, resp)
        /\ calls' = calls \o FetchRequests(ABUSEIPDB_API_KEY, resp)
        /\ fetchLog' = [path |-> FetchPath(ABUSEIPDB_API_KEY, resp),
                        highRisk |-> FetchPrintsHighRisk(ABUSEIPDB_API_KEY, resp)]
    /\ pc' = "fetched"
    /\ UNCHANGED <<ABUSEIPDB_API_KEY, CLOUDFLARE_API_TOKEN, zoneIdx, custom_rulesets,
                   rsIdx, file, origFile, data, crashSite, nCalls>>

\* print(f"Fetched {len(asns)} unique ASNs."): the fetcher's own lines are over
PrintFetched ==
    /\ pc = "fetched"
    /\ pc' = MainAfter("fetch")
    /\ fetchLog' = NoFetch
    /\ UNCHANGED <<ABUSEIPDB_API_KEY, CLOUDFLARE_API_TOKEN, zoneIdx, custom_rulesets,
                   rsIdx, calls, asns, file, origFile, data, crashSite, nCalls>>

\* update_rules_yaml(asns) up to the second open: load, filter, append
UpdateLoad ==
    /\ pc = "update"
    /\ calls' = Append(calls, Call("READ", "", OUTPUT_FILE, Loadable(file), <<>>))
    /\ IF Loadable(file)
       THEN /\ data' = UpdatedDocument(file.doc, asns)
            /\ pc' = "open"
            /\ crashSite' = crashSite
       ELSE /\ Crash("update_rules_yaml:load")
            /\ data' = data
    /\ UNCHANGED <<ABUSEIPDB_API_KEY, CLOUDFLARE_API_TOKEN, zoneIdx, custom_rulesets,
                   rsIdx, asns, fetchLog, file, origFile, nCalls>>

\* open(OUTPUT_FILE, 'w'): the file is truncated, or the open raises
UpdateOpen ==
    /\ pc = "open"
    /\ \/ /\ file' = EmptyFile
          /\ calls' = Append(calls, Call("WRITE", "", OUTPUT_FILE, TRUE, <<>>))
          /\ pc' = "dump"
          /\ crashSite' = crashSite
       \/ /\ file' = update_rules_yaml(origFile, asns, IoOpenFails).file
          /\ calls' = Append(calls, Call("WRITE", "", OUTPUT_FILE, FALSE, <<>>))
          /\ Crash("update_rules_yaml:open")
    /\ UNCHANGED <<ABUSEIPDB_API_KEY, CLOUDFLARE_API_TOKEN, zoneIdx, custom_rulesets,
                   rsIdx, asns, fetchLog, origFile, data, nCalls>>

\* yaml.dump(data, f): the document is written, or the write ends part way
UpdateDump ==
    /\ pc = "dump"
    /\ \E io \in WriteOutcomes(origFile, asns) \ {IoOpenFails} :
        LET out == update_rules_yaml(origFile, asns, io)
        IN  /\ file' = out.file
            /\ IF out.raised = ""
               THEN pc' = MainAfter("update") /\ crashSite' = crashSite
               ELSE Crash("update_rules_yaml:" \o out.raised)
    /\ UNCHANGED <<ABUSEIPDB_API_KEY, CLOUDFLARE_API_TOKEN, zoneIdx, custom_rulesets,
                   rsIdx, calls, asns, fetchLog, origFile, data, nCalls>>

Next ==
    \/ CleanupStart
    \/ ListZone
    \/ DeleteManaged
    \/ SkipUnmanaged
    \/ Fetch
    \/ PrintFetched
    \/ UpdateLoad
    \/ UpdateOpen
    \/ UpdateDump

Spec == Init /\ [][Next]_vars

----------------------------------------------------------------------------
(* update_rules_yaml called directly, any number of times, on any file *)

UpdaterInit ==
    /\ ABUSEIPDB_API_KEY = <<>>
    /\ CLOUDFLARE_API_TOKEN = <<>>
    /\ file \in InputFiles
    /\ origFile = file
    /\ pc = "imported"
    /\ zoneIdx = 0
    /\ custom_rulesets = <<>>
    /\ rsIdx = 0
    /\ calls = <<>>
    /\ asns = <<>>
    /\ fetchLog = NoFetch
    /\ data = NoData
    /\ crashSite = ""
    /\ nCalls = 0

\* one call of update_rules_yaml(a); origFile is the file as the call found it and
\* crashSite the exception it raised to its caller ("" when it returned)
DirectUpdate ==
    /\ pc = "imported"
    /\ nCalls < MaxUpdates
    /\ \E a \in AsnArguments : \E io \in WriteOutcomes(file, a) :
        LET out == update_rules_yaml(file, a, io)
            read == Call("READ", "", OUTPUT_FILE, Loadable(file), <<>>)
            write == Call("WRITE", "", OUTPUT_FILE, io.at # "open", <<>>)
        IN  /\ asns' = a
            /\ origFile' = file
            /\ file' = out.file
            /\ data' = IF Loadable(file) THEN UpdatedDocument(file.doc, a) ELSE NoData
            /\ calls' = IF Loadable(file) THEN calls \o <<read, write>>
                                          ELSE Append(calls, read)
            /\ crashSite' = out.raised
    /\ nCalls' = nCalls + 1
    /\ UNCHANGED <<ABUSEIPDB_API_KEY, CLOUDFLARE_API_TOKEN, pc, zoneIdx,
                   custom_rulesets, rsIdx, fetchLog>>

UpdaterNext == DirectUpdate

UpdaterSpec == UpdaterInit /\ [][UpdaterNext]_vars

----------------------------------------------------------------------------
(* What the properties below read from a state *)

\* the positions of the log that hold a call of the given kind
CallsAt(op) == {i \in 1..Len(calls) : calls[i].op = op}

\* fetch_abuseipdb_asns has returned
FetchReturned ==
    \/ pc \in {"fetched", "update", "open", "dump", "done"}
    \/ pc = "crashed" /\ crashSite \in
          {"update_rules_yaml:load", "update_rules_yaml:open", "update_rules_yaml:dump"}

\* cleanup_existing_rulesets has returned
CleanupReturned == pc = "fetch" \/ FetchReturned

\* the credential is configured: set and not empty
Configured(v) == Len(v) = 1 /\ Len(v[1]) > 0

\* the conditions under which a listed ruleset is to be deleted
DeletionKeywords == {"terraform", "waf", "managed"}
ToBeDeleted ==
    {rs \in {RemoteRulesets[i] : i \in 1..Len(RemoteRulesets)} :
        /\ rs.phase = "http_request_firewall_custom"
        /\ rs.kind = "zone"
        /\ \E kw \in DeletionKeywords : Contains(kw, Lower(rs.name))}
MeetsAllThree(rs) == rs \in ToBeDeleted

\* the DELETEs sent to a zone, as ruleset ids in the order sent
RECURSIVE DeletedIds(_, _)
DeletedIds(log, zone) ==
    IF Len(log) = 0 THEN <<>>
    ELSE IF Head(log).op = "DELETE" /\ Head(log).zone = zone
         THEN <<Head(log).id>> \o DeletedIds(Tail(log), zone)
         ELSE DeletedIds(Tail(log), zone)

\* the ids of the rulesets of a list that meet all three conditions, in list order
RECURSIVE MatchingIds(_)
MatchingIds(list) ==
    IF Len(list) = 0 THEN <<>>
    ELSE IF MeetsAllThree(Head(list)) THEN <<Head(list).id>> \o MatchingIds(Tail(list))
         ELSE MatchingIds(Tail(list))

\* the number a decimal string denotes
RECURSIVE ParseNat(_)
ParseNat(str) ==
    IF Len(str) = 0 THEN 0
    ELSE LET last == SubSeq(str, Len(str), Len(str))
             d == CHOOSE k \in 0..9 : SubSeq(Digits, k + 1, k + 1) = last
         IN  10 * ParseNat(SubSeq(str, 1, Len(str) - 1)) + d

IsDecimal(str) ==
    /\ Len(str) > 0
    /\ \A i \in 1..Len(str) : \E k \in 1..Len(Digits) : SubSeq(Digits, k, k) = SubSeq(str, i, i)

\* the pieces of a string between single spaces
RECURSIVE SplitOnSpace(_)
SplitOnSpace(str) ==
    IF \E i \in 1..Len(str) : SubSeq(str, i, i) = " "
    THEN LET i == CHOOSE j \in 1..Len(str) :
                    /\ SubSeq(str, j, j) = " "
                    /\ \A k \in 1..(j - 1) : SubSeq(str, k, k) # " "
         IN  <<SubSeq(str, 1, i - 1)>> \o SplitOnSpace(SubSeq(str, i + 1, Len(str)))
    ELSE <<str>>

ExprPrefix == "(ip.geoip.asnum in {"
ExprSuffix == "})"

\* the expression is the set-membership test over exactly the numbers of a, in order
ListsExactly(expr, a) ==
    /\ Len(expr) >= Len(ExprPrefix) + Len(ExprSuffix)
    /\ SubSeq(expr, 1, Len(ExprPrefix)) = ExprPrefix
    /\ SubSeq(expr, Len(expr) - Len(ExprSuffix) + 1, Len(expr)) = ExprSuffix
    /\ LET parts == SplitOnSpace(SubSeq(expr, Len(ExprPrefix) + 1,
                                        Len(expr) - Len(ExprSuffix)))
       IN  /\ Len(parts) = Len(a)
           /\ \A i \in 1..Len(parts) : IsDecimal(parts[i]) /\ ParseNat(parts[i]) = a[i]

HasAsnName(rule) == Contains("ASN", rule.name)
AsnRuleCount(rules) == Cardinality({i \in 1..Len(rules) : HasAsnName(rules[i])})

\* the rules without "ASN" in their name, in order
RECURSIVE NonAsnRules(_)
NonAsnRules(rules) ==
    IF Len(rules) = 0 THEN <<>>
    ELSE IF HasAsnName(Head(rules)) THEN NonAsnRules(Tail(rules))
         ELSE <<Head(rules)>> \o NonAsnRules(Tail(rules))

\* the latest direct call of update_rules_yaml returned without raising
UpdateSucceeded == pc = "imported" /\ nCalls > 0 /\ crashSite = ""

----------------------------------------------------------------------------
(* C1: whatever the intelligence call does (no credential, 200 with any data,  *)
(* 200 with empty or missing data, 429, 401, another status, a network or any  *)
(* other exception), fetch_abuseipdb_asns returns the first min(50, N) entries *)
(* of the static catalog in catalog order: at most 50 entries, a prefix of the *)
(* catalog, the same whether or not a high-risk country was detected.          *)
C1_FetchReturnsCatalogPrefix ==
    FetchReturned =>
        /\ Len(asns) <= 50
        /\ Len(asns) = IF Len(get_known_bad_asns) < 50 THEN Len(get_known_bad_asns) ELSE 50
        /\ \A i \in 1..Len(asns) : asns[i] = get_known_bad_asns[i]

\* the fetcher has just returned from a live feed in which it detected a high-risk country
C1_Witness ==
    /\ pc = "fetched"
    /\ fetchLog.path = "live_data"
    /\ fetchLog.highRisk
    /\ Len(asns) > 0

(* C7: one fetch_abuseipdb_asns issues no HTTP request when the credential is  *)
(* absent and exactly one GET to the intelligence endpoint when it is present, *)
(* whatever the answer: nothing is retried.                                    *)
C7_FetchIssuesAtMostOneGet ==
    /\ ~FetchReturned /\ pc # "crashed" => CallsAt("GET") = {}
    /\ FetchReturned =>
        /\ Cardinality(CallsAt("GET")) = IF Configured(ABUSEIPDB_API_KEY) THEN 1 ELSE 0
        /\ \A i \in CallsAt("GET") : calls[i].id = INTEL_URL

\* the fetcher has returned after the endpoint answered 429
C7_Witness ==
    /\ pc = "fetched"
    /\ fetchLog.path = "rate_limited"
    /\ Cardinality(CallsAt("GET")) = 1

(* C3: every DELETE goes to a ruleset that the list call of the same zone      *)
(* returned and that has the custom-firewall phase, the kind "zone" and a      *)
(* lower-cased name containing "terraform", "waf" or "managed"; a listed       *)
(* ruleset failing any of the three never receives a DELETE, no ruleset        *)
(* receives two, and when cleanup_existing_rulesets returns every listed       *)
(* ruleset meeting all three has received exactly one.                         *)
C3_DeleteOnlyManagedCustomZone ==
    /\ \A j \in CallsAt("DELETE") :
          \E i \in CallsAt("LIST") :
              /\ i < j
              /\ calls[i].zone = calls[j].zone
              /\ \E k \in 1..Len(calls[i].result) :
                    /\ calls[i].result[k].id = calls[j].id
                    /\ MeetsAllThree(calls[i].result[k])
    /\ \A i \in CallsAt("LIST") : \A k \in 1..Len(calls[i].result) :
          LET rs == calls[i].result[k]
              sent == {j \in CallsAt("DELETE") :
                          calls[j].zone = calls[i].zone /\ calls[j].id = rs.id}
          IN  /\ ~MeetsAllThree(rs) => sent = {}
              /\ Cardinality(sent) <= 1
              /\ CleanupReturned /\ MeetsAllThree(rs) => Cardinality(sent) = 1

\* cleanup has returned after listing "Terraform Managed WAF" with "Custom Rule"
\* and a ruleset of another kind, and has sent a DELETE
C3_Witness ==
    /\ CleanupReturned
    /\ CallsAt("DELETE") # {}
    /\ \E i \in CallsAt("LIST") :
          /\ \E k \in 1..Len(calls[i].result) : calls[i].result[k].name = "Terraform Managed WAF"
          /\ \E k \in 1..Len(calls[i].result) : calls[i].result[k].name = "Custom Rule"
    /\ \E i \in CallsAt("LIST") :
          \E k \in 1..Len(calls[i].result) : calls[i].result[k].kind # "zone"

(* C9: with a credential, an answered failure blocks nothing.  No DELETE is    *)
(* sent twice; and when cleanup_existing_rulesets returns, every zone has been *)
(* listed exactly once in registry order, a zone whose list was answered with  *)
(* a non-200 status has received no DELETE, and the DELETEs of every other     *)
(* zone are those of its matching rulesets, each once and in list order,       *)
(* whatever status the earlier DELETEs were answered with.                     *)
C9_FailuresDoNotBlockCleanup ==
    /\ \A i, j \in CallsAt("DELETE") :
          calls[i].zone = calls[j].zone /\ calls[i].id = calls[j].id => i = j
    /\ CleanupReturned /\ Configured(CLOUDFLARE_API_TOKEN) =>
          LET lists == SelectSeq(calls, LAMBDA c : c.op = "LIST")
          IN  /\ Len(lists) = Len(ZONE_IDS)
              /\ \A z \in 1..Len(lists) :
                    /\ lists[z].zone = ZONE_IDS[z][2]
                    /\ ~lists[z].ok => DeletedIds(calls, lists[z].zone) = <<>>
                    /\ DeletedIds(calls, lists[z].zone) = MatchingIds(lists[z].result)

\* cleanup has returned after one zone's list was answered with a failure and,
\* in another zone, a DELETE answered with a failure was followed by a DELETE
C9_Witness ==
    /\ CleanupReturned
    /\ \E i \in CallsAt("LIST") : ~calls[i].ok
    /\ \E i, j \in CallsAt("DELETE") :
          i < j /\ ~calls[i].ok /\ calls[i].zone = calls[j].zone

\* the step of __main__ a call belongs to
StepOf(op) ==
    CASE op \in {"LIST", "DELETE"} -> 1
      [] op = "GET" -> 2
      [] op = "READ" -> 3
      [] op = "WRITE" -> 4

(* C6: the steps run in the order cleanup, fetch, update, each at most once:   *)
(* every list GET and DELETE precedes the intelligence GET, the rules file is  *)
(* read and written only after the fetch has returned, and the document the    *)
(* update builds is built from exactly the sequence the fetch returned.        *)
C6_CleanupThenFetchThenUpdate ==
    /\ \A i, j \in 1..Len(calls) : i < j => StepOf(calls[i].op) <= StepOf(calls[j].op)
    /\ \A op \in {"GET", "READ", "WRITE"} : Cardinality(CallsAt(op)) <= 1
    /\ \A z \in 1..Len(ZONE_IDS) :
          Cardinality({i \in CallsAt("LIST") : calls[i].zone = ZONE_IDS[z][2]}) <= 1
    /\ CallsAt("READ") \cup CallsAt("WRITE") # {} =>
          /\ FetchReturned
          /\ asns = Take(get_known_bad_asns, 50)
    /\ pc \in {"zone", "ruleset"} => CallsAt("GET") = {}
    /\ pc \in {"open", "dump", "done"} =>
          /\ data.rules[Len(data.rules)].expression = Expression(asns)
          /\ CallsAt("READ") # {}
    /\ pc = "done" =>
          /\ CallsAt("WRITE") # {}
          /\ file.kind = "yaml"
          /\ ListsExactly(file.doc.rules[Len(file.doc.rules)].expression,
                          Take(get_known_bad_asns, 50))

\* a finished run that made every kind of call: list, delete, intelligence GET,
\* read and write
C6_Witness ==
    /\ pc = "done"
    /\ \A op \in {"LIST", "DELETE", "GET", "READ", "WRITE"} : CallsAt(op) # {}

(* C8: without the management credential cleanup_existing_rulesets sends no    *)
(* list GET and no DELETE to any zone, and the absence is not fatal: the run   *)
(* goes on to the fetch and to the rules-file update, and can only end in the  *)
(* update.                                                                     *)
C8_NoTokenNoCleanupCalls ==
    ~Configured(CLOUDFLARE_API_TOKEN) =>
        /\ CallsAt("LIST") = {} /\ CallsAt("DELETE") = {}
        /\ pc # "cleanup" => CleanupReturned
        /\ pc \in {"done", "crashed"} => FetchReturned /\ CallsAt("READ") # {}
        /\ pc \notin {"done", "crashed"} => ENABLED Next

\* a run without the token that finished its update
C8_Witness ==
    /\ ~Configured(CLOUDFLARE_API_TOKEN)
    /\ pc = "done"
    /\ CallsAt("READ") # {} /\ CallsAt("WRITE") # {}
    /\ CallsAt("LIST") = {}

(* C4: no network failure of an HTTP call of the fetcher or of the cleanup     *)
(* (the intelligence GET, a ruleset list GET, a ruleset DELETE) ends the       *)
(* process; only the updater's file read, parse or write failures do.          *)
C4_OnlyFileFailuresTerminate ==
    pc = "crashed" =>
        crashSite \in {"update_rules_yaml:load", "update_rules_yaml:open",
                       "update_rules_yaml:dump"}

(* C5: whenever the process ends, by finishing or by failing at any step, the  *)
(* file on disk is the complete original document or the complete updated      *)
(* one, never an empty or partly written file.                                 *)
C5_FileNeverCorrupted ==
    pc \in {"done", "crashed"} =>
        \/ file = origFile
        \/ /\ Loadable(origFile)
           /\ file = YamlFile(UpdatedDocument(origFile.doc, asns))

\* after a call that returned: one ASN rule for a non-empty asns, none for an empty one
C2_ExactlyOneAsnRule ==
    UpdateSucceeded =>
        /\ file.kind = "yaml"
        /\ AsnRuleCount(file.doc.rules) = IF Len(asns) > 0 THEN 1 ELSE 0

\* a step that is a further successful call with the same non-empty asns
C2_SameAsnsSameDocument ==
    (/\ UpdateSucceeded
     /\ Len(asns) > 0
     /\ nCalls' = nCalls + 1
     /\ asns' = asns
     /\ crashSite' = "")
    => /\ file' = file
       /\ AsnRuleCount(file'.doc.rules) = 1

(* C2: after any update_rules_yaml(asns) that returns, whatever number of      *)
(* rules with "ASN" in their name the document held, it holds exactly one such *)
(* rule if asns is non-empty and none if asns is empty; and a further call     *)
(* with the same non-empty asns leaves the document as the call before left    *)
(* it: the rule is replaced, not accumulated.                                  *)
C2_ReplacementNotAccumulation ==
    []C2_ExactlyOneAsnRule /\ [][C2_SameAsnsSameDocument]_vars

\* a second call in succession with a non-empty asns has returned, on the
\* document the call before had left with its one ASN rule beside other rules
C2_Witness ==
    /\ UpdateSucceeded
    /\ nCalls = 2
    /\ Len(asns) > 0
    /\ Loadable(origFile)
    /\ Len(origFile.doc.rules) > 1
    /\ AsnRuleCount(origFile.doc.rules) = 1
    /\ file = origFile

(* C10: after update_rules_yaml(asns) returns, the rules are the original      *)
(* rules without "ASN" in their name, unchanged and in their original order,   *)
(* followed for a non-empty asns by one rule named                             *)
(* "Block Known Bad ASNs (AbuseIPDB)" with action "block" and an expression    *)
(* listing exactly the given ASNs in the given order, and by nothing for an    *)
(* empty asns.                                                                 *)
C10_NonAsnRulesKeptNewRuleLast ==
    UpdateSucceeded =>
        LET before == origFile.doc.rules
            after == file.doc.rules
            kept == NonAsnRules(before)
        IN  IF Len(asns) = 0
            THEN after = kept
            ELSE /\ Len(after) = Len(kept) + 1
                 /\ SubSeq(after, 1, Len(kept)) = kept
                 /\ after[Len(after)].name = "Block Known Bad ASNs (AbuseIPDB)"
                 /\ after[Len(after)].action = "block"
                 /\ ListsExactly(after[Len(after)].expression, asns)

\* a call with two ASNs returned on a document that held an ASN rule between
\* two rules that stay
C10_Witness ==
    /\ UpdateSucceeded
    /\ Len(asns) = 2
    /\ asns[1] # asns[2]
    /\ Len(origFile.doc.rules) >= 2
    /\ AsnRuleCount(origFile.doc.rules) >= 1
    /\ Len(NonAsnRules(origFile.doc.rules)) >= 1
    /\ Len(file.doc.rules) >= 2

====
